---- MODULE Spec2Model ----
(***************************************************************************)
(* Model of the job-board backend: the resume analysis endpoint            *)
(* (api/app.py analyze_resume with api/resume_analysis.py ResumeAnalyzer)  *)
(* and the candidate scraping endpoint (api/app.py scrape_candidates).     *)
(*                                                                         *)
(* Text is a sequence of one-character strings, so that strip, lower,     *)
(* endswith, split and the parsers are computed and not assumed.           *)
(* An LLM reply to the JSON-producing calls is a sequence of lexical       *)
(* tokens (fence markers, whitespace, brackets, commas, values).           *)
(***************************************************************************)
EXTENDS Integers, Sequences, FiniteSets, TLC

(***************************************************************************)
(* Bounds of the model.                                                    *)
(***************************************************************************)
\* longest sequence of PDF pages / DOCX paragraphs of an uploaded body
MaxItems == 2
\* longest cleanup reply, in tokens
MaxReplyLen == 5
\* analyze-resume requests in flight in the whole-process specification
NumAnalyze == 2
\* scrape-candidates requests in flight in the whole-process specification
NumScrape == 2

(***************************************************************************)
(* str helpers.                                                            *)
(***************************************************************************)
\* str.isspace for one character
Whitespace == {" ", "\n", "\t"}

\* all sequences over S of length at most n
RECURSIVE SeqsUpTo(_, _)
SeqsUpTo(S, n) ==
    IF n = 0 THEN {<<>>}
    ELSE LET shorter == SeqsUpTo(S, n - 1)
         IN  shorter \cup {Append(s, x) : s \in {t \in shorter : Len(t) = n - 1}, x \in S}

\* s with the leading characters that are in cs removed
RECURSIVE LStripChars(_, _)
LStripChars(s, cs) ==
    IF s # <<>> /\ Head(s) \in cs THEN LStripChars(Tail(s), cs) ELSE s

\* s with the trailing characters that are in cs removed
RECURSIVE RStripChars(_, _)
RStripChars(s, cs) ==
    IF s # <<>> /\ s[Len(s)] \in cs THEN RStripChars(SubSeq(s, 1, Len(s) - 1), cs) ELSE s

\* str.strip(chars)
StripChars(s, cs) == RStripChars(LStripChars(s, cs), cs)

\* str.strip()
Strip(s) == StripChars(s, Whitespace)

\* str.lower() on the letters the model's filenames use
LowerChar(c) ==
    CASE c = "C" -> "c" [] c = "D" -> "d" [] c = "F" -> "f" [] c = "O" -> "o"
      [] c = "P" -> "p" [] c = "R" -> "r" [] c = "T" -> "t" [] c = "X" -> "x"
      [] OTHER -> c

\* str.lower left out: the filename is compared as it was sent
Lower_Identity(s) == s

Lower(s) == [i \in 1..Len(s) |-> LowerChar(s[i])]

\* str.endswith
EndsWith(s, suffix) ==
    /\ Len(s) >= Len(suffix)
    /\ SubSeq(s, Len(s) - Len(suffix) + 1, Len(s)) = suffix

\* str.replace(c, '') for one character c
RECURSIVE RemoveChar(_, _)
RemoveChar(s, c) ==
    IF s = <<>> THEN <<>>
    ELSE IF Head(s) = c THEN RemoveChar(Tail(s), c)
    ELSE <<Head(s)>> \o RemoveChar(Tail(s), c)

\* str.split(sep) for a one-character separator: always at least one piece
RECURSIVE SplitFrom(_, _, _)
SplitFrom(s, sep, cur) ==
    IF s = <<>> THEN <<cur>>
    ELSE IF Head(s) = sep THEN <<cur>> \o SplitFrom(Tail(s), sep, <<>>)
    ELSE SplitFrom(Tail(s), sep, Append(cur, Head(s)))

Split(s, sep) == SplitFrom(s, sep, <<>>)

\* the concatenation of a sequence of texts
RECURSIVE Concat(_)
Concat(ss) == IF ss = <<>> THEN <<>> ELSE Head(ss) \o Concat(Tail(ss))

(***************************************************************************)
(* Exceptions and results.  A call either returns a value or raises; an    *)
(* exception carries its class, its HTTP status (HTTPException only) and   *)
(* its message, a sequence of message parts.                               *)
(***************************************************************************)
Exc(cls, msg) == [cls |-> cls, status |-> 0, msg |-> msg]

\* fastapi.HTTPException(status_code, detail)
HTTPException(status, detail) == [cls |-> "HTTPException", status |-> status, msg |-> detail]

NoExc == [cls |-> "", status |-> 0, msg |-> <<>>]

\* the classes below are subclasses of ValueError in Python's hierarchy
\* (json.JSONDecodeError and UnicodeDecodeError both derive from it)
ValueErrorClasses == {"ValueError", "JSONDecodeError", "UnicodeDecodeError"}

IsValueError(e) == e.cls \in ValueErrorClasses

\* str(e)
StrOfExc(e) ==
    IF e.cls = "HTTPException" THEN <<ToString(e.status), ": ">> \o e.msg ELSE e.msg

(***************************************************************************)
(* Uploaded files.  A body is what the upload's bytes are: empty, a PDF    *)
(* with its pages' texts, a DOCX with its paragraphs' texts, UTF-8 text,   *)
(* or bytes that are none of these.                                        *)
(***************************************************************************)
EmptyBody == [fmt |-> "empty", items |-> <<>>, text |-> <<>>]

BinaryBody == [fmt |-> "binary", items |-> <<>>, text |-> <<>>]

PdfBody(pages) == [fmt |-> "pdf", items |-> pages, text |-> <<>>]

DocxBody(paras) == [fmt |-> "docx", items |-> paras, text |-> <<>>]

TextBody(text) == [fmt |-> "text", items |-> <<>>, text |-> text]

\* UploadFile.file: the bytes and the read position
OpenFile(body) == [body |-> body, pos |-> "start"]

\* file.read(): everything from the read position on
FileRead(file) == IF file.pos = "start" THEN file.body ELSE EmptyBody

\* the file after read()
AfterRead(file) == [file EXCEPT !.pos = "end"]

\* file.seek(0)
Seek0(file) == [file EXCEPT !.pos = "start"]

\* the test (not content) on bytes
IsEmptyBytes(content) == content.fmt = "empty"

\* the test (not text) on a str
Falsy(text) == text = <<>>

\* the loop of _extract_text_from_pdf_sync: pages in order, empty ones skipped
RECURSIVE JoinPages(_)
JoinPages(pages) ==
    IF pages = <<>> THEN <<>>
    ELSE IF Falsy(Head(pages)) THEN JoinPages(Tail(pages))
    ELSE Head(pages) \o JoinPages(Tail(pages))

\* the paragraphs joined with a newline between them and none at the end
RECURSIVE JoinParagraphs_Separator(_)
JoinParagraphs_Separator(paras) ==
    IF paras = <<>> THEN <<>>
    ELSE IF Len(paras) = 1 THEN Head(paras)
    ELSE Head(paras) \o <<"\n">> \o JoinParagraphs_Separator(Tail(paras))

\* the loop of _extract_text_from_docx_sync: each paragraph and a newline
RECURSIVE JoinParagraphs(_)
JoinParagraphs(paras) ==
    IF paras = <<>> THEN <<>>
    ELSE Head(paras) \o <<"\n">> \o JoinParagraphs(Tail(paras))

Returned(v, file) == [raised |-> FALSE, exc |-> NoExc, val |-> v, file |-> file]

Raised(e, file) == [raised |-> TRUE, exc |-> e, val |-> <<>>, file |-> file]

\* _extract_text_from_pdf_sync: every exception, the empty-file ValueError
\* included, is re-raised as a ValueError
extract_text_from_pdf_sync(file) ==
    LET content == FileRead(file)
        after == AfterRead(file)
    IN  IF IsEmptyBytes(content)
        THEN Raised(Exc("ValueError", <<"Error extracting text from PDF: ", "Empty PDF file">>), after)
        ELSE IF content.fmt # "pdf"
        THEN Raised(Exc("ValueError", <<"Error extracting text from PDF: ", "PdfReadError">>), after)
        ELSE Returned(JoinPages(content.items), after)

\* _extract_text_from_docx_sync
extract_text_from_docx_sync(file) ==
    LET content == FileRead(file)
        after == AfterRead(file)
    IN  IF IsEmptyBytes(content)
        THEN Raised(Exc("ValueError", <<"Error extracting text from DOCX: ", "Empty DOCX file">>), after)
        ELSE IF content.fmt # "docx"
        THEN Raised(Exc("ValueError", <<"Error extracting text from DOCX: ", "PackageNotFoundError">>), after)
        ELSE Returned(JoinParagraphs(content.items), after)

\* _extract_text_from_txt_sync: no emptiness check, decode of b"" is ""
extract_text_from_txt_sync(file) ==
    LET content == FileRead(file)
        after == AfterRead(file)
    IN  IF content.fmt \in {"text", "empty"}
        THEN Returned(content.text, after)
        ELSE Raised(Exc("ValueError", <<"Error extracting text from TXT: ", "UnicodeDecodeError">>), after)

UnsupportedDetail == <<"Unsupported file type. Only PDF, DOCX, and TXT are supported.">>

DotPdf == <<".", "p", "d", "f">>

DotDocx == <<".", "d", "o", "c", "x">>

DotTxt == <<".", "t", "x", "t">>

\* extract_text_sync: dispatch on the lower-cased filename's suffix
extract_text_sync(filename, file) ==
    IF EndsWith(Lower(filename), DotPdf) THEN extract_text_from_pdf_sync(file)
    ELSE IF EndsWith(Lower(filename), DotDocx) THEN extract_text_from_docx_sync(file)
    ELSE IF EndsWith(Lower(filename), DotTxt) THEN extract_text_from_txt_sync(file)
    ELSE Raised(HTTPException(400, UnsupportedDetail), file)

(***************************************************************************)
(* Optional values (a form field or argument that may be None).            *)
(***************************************************************************)
NoneV == [some |-> FALSE, v |-> <<>>]

Some(v) == [some |-> TRUE, v |-> v]

\* Python truthiness of an optional str or list: None and the empty value
\* are both false
Truthy(o) == o.some /\ o.v # <<>>

(***************************************************************************)
(* LLM replies.  A chat completion call raises (an API error), returns a   *)
(* message without content, or returns content.                            *)
(***************************************************************************)
LlmError == [kind |-> "error", content |-> <<>>]

LlmNoContent == [kind |-> "none", content |-> <<>>]

LlmContent(c) == [kind |-> "content", content |-> c]

(***************************************************************************)
(* ResumeAnalyzer.extract_skills_from_job_description                      *)
(***************************************************************************)
Quotes == {"'", "\""}

Digits == {"1"}

\* one item of a list literal: a quoted string without quotes inside, or an
\* integer literal
IsStringLiteral(p) ==
    /\ Len(p) >= 2
    /\ p[1] \in Quotes
    /\ p[Len(p)] = p[1]
    /\ \A i \in 2..(Len(p) - 1) : p[i] \notin Quotes

IsIntLiteral(p) == p # <<>> /\ \A i \in 1..Len(p) : p[i] \in Digits

\* str(item) of an evaluated list item
StrOfLiteral(p) == IF IsStringLiteral(p) THEN SubSeq(p, 2, Len(p) - 1) ELSE p

\* the pieces between the commas of a list literal's inside, a trailing
\* comma allowed
ListPieces(inner) ==
    LET raw == [i \in 1..Len(Split(inner, ",")) |-> Strip(Split(inner, ",")[i])]
    IN  IF Len(raw) >= 2 /\ raw[Len(raw)] = <<>> THEN SubSeq(raw, 1, Len(raw) - 1) ELSE raw

\* eval(skills_text) followed by the isinstance(skills, list) test: ok is
\* TRUE when the text evaluates to a list, and items are then str(item);
\* ok is FALSE when eval raises or the value is no list
PyEvalList(text) ==
    LET n == Len(text)
        inner == SubSeq(text, 2, n - 1)
        bracketed == n >= 2 /\ text[1] = "[" /\ text[n] = "]"
        flat == \A i \in 1..Len(inner) : inner[i] \notin {"[", "]"}
        pieces == ListPieces(inner)
    IN  IF ~bracketed \/ ~flat THEN [ok |-> FALSE, items |-> <<>>]
        ELSE IF Strip(inner) = <<>> THEN [ok |-> TRUE, items |-> <<>>]
        ELSE IF \A i \in 1..Len(pieces) : IsStringLiteral(pieces[i]) \/ IsIntLiteral(pieces[i])
        THEN [ok |-> TRUE, items |-> [i \in 1..Len(pieces) |-> StrOfLiteral(pieces[i])]]
        ELSE [ok |-> FALSE, items |-> <<>>]

NonEmptyText(t) == t # <<>>

\* the fallback of the inner except: brackets removed, split on commas,
\* each piece stripped of whitespace and then of quotes, empty pieces dropped
FallbackSkills(text) ==
    LET pieces == Split(RemoveChar(RemoveChar(text, "["), "]"), ",")
        cleaned == [i \in 1..Len(pieces) |-> StripChars(Strip(pieces[i]), Quotes)]
    IN  SelectSeq(cleaned, NonEmptyText)

\* lines 170-185: the inner try, given the reply's text
parse_skills_text(skills_text) ==
    IF PyEvalList(skills_text).ok
    THEN PyEvalList(skills_text).items
    ELSE FallbackSkills(skills_text)

\* extract_skills_from_job_description without its outer except: a failed
\* call is raised to the caller
extract_skills_NoOuterExcept(reply) ==
    IF reply.kind = "error"
    THEN [raised |-> TRUE, exc |-> Exc("APIError", <<"APIError">>), val |-> <<>>]
    ELSE IF reply.kind = "none"
    THEN [raised |-> TRUE, exc |-> Exc("AttributeError", <<"no attribute strip">>), val |-> <<>>]
    ELSE [raised |-> FALSE, exc |-> NoExc, val |-> parse_skills_text(Strip(reply.content))]

\* extract_skills_from_job_description, given the LLM's reply: the outer
\* except turns an API error, or a reply without content, into []
extract_skills_from_job_description(reply) ==
    IF reply.kind # "content"
    THEN [raised |-> FALSE, exc |-> NoExc, val |-> <<>>]
    ELSE [raised |-> FALSE, exc |-> NoExc, val |-> parse_skills_text(Strip(reply.content))]

(***************************************************************************)
(* ResumeAnalyzer.create_universal_resume_analysis_prompt.  The prompt is  *)
(* the sequence of the template's segments; a segment that the template    *)
(* leaves empty has the name "".                                           *)
(***************************************************************************)
Segment(name, data) == [seg |-> name, data |-> data]

EmptySegment == Segment("", <<>>)

\* f'"{skill}"'
Quoted(skill) == <<"\"">> \o skill \o <<"\"">>

\* the rendering of an optional text by an f-string
Rendered(o) == IF o.some THEN o.v ELSE <<"N", "o", "n", "e">>

\* the skills clause chosen by (skill_list is not None) in place of the
\* truth value of the list
skill_list_instruction_NoneTest(skill_list) ==
    IF skill_list.some
    THEN Segment("Evaluate the following specific skills from the provided list",
                 [i \in 1..Len(skill_list.v) |-> Quoted(skill_list.v[i])])
    ELSE Segment("Since no specific skill list was provided, analyze the job description", <<>>)

skill_list_instruction(skill_list) ==
    IF Truthy(skill_list)
    THEN Segment("Evaluate the following specific skills from the provided list",
                 [i \in 1..Len(skill_list.v) |-> Quoted(skill_list.v[i])])
    ELSE Segment("Since no specific skill list was provided, analyze the job description", <<>>)

\* the experience clause chosen by (required_experience != 0) in place of
\* (required_experience > 0)
exp_instruction_NonZero(required_experience) ==
    IF required_experience # 0
    THEN Segment("The role requires years of experience", <<<<ToString(required_experience)>>>>)
    ELSE EmptySegment

exp_instruction(required_experience) ==
    IF required_experience > 0
    THEN Segment("The role requires years of experience", <<<<ToString(required_experience)>>>>)
    ELSE EmptySegment

create_universal_resume_analysis_prompt(resume_text, job_description, required_experience, skill_list) ==
    << Segment("Analyze this resume for professional role suitability", <<>>),
       Segment("RESUME", <<resume_text>>),
       Segment("JOB DESCRIPTION", <<Rendered(job_description)>>),
       exp_instruction(required_experience),
       skill_list_instruction(skill_list),
       Segment("Generate JSON output in this flattened structure", <<>>) >>

(***************************************************************************)
(* JSON.  A JSON text is a sequence of tokens: "[", "]", ",", whitespace,  *)
(* and object tokens standing for one JSON object each; the fence markers  *)
(* of a Markdown code block are tokens too, and are no JSON.               *)
(***************************************************************************)
WS == " "

\* the token for three backquotes followed by the word json
FenceOpen == "FENCEjson"

\* the token for three backquotes
FenceClose == "FENCE"

ObjectTokens == {"{A}", "{B}"}

JObject(tok) == [type |-> "object", name |-> tok, items |-> <<>>, oid |-> 0]

JList(items) == [type |-> "list", name |-> "", items |-> items, oid |-> 0]

JNothing == [type |-> "nothing", name |-> "", items |-> <<>>, oid |-> 0]

IsNotWS(tok) == tok # WS

ParseFail == [ok |-> FALSE, val |-> JNothing, next |-> 0]

\* one JSON value starting at token i
RECURSIVE ParseValue(_, _)
RECURSIVE ParseElements(_, _, _)
ParseValue(t, i) ==
    IF i > Len(t) THEN ParseFail
    ELSE IF t[i] \in ObjectTokens THEN [ok |-> TRUE, val |-> JObject(t[i]), next |-> i + 1]
    ELSE IF t[i] = "[" THEN
        IF i + 1 <= Len(t) /\ t[i + 1] = "]"
        THEN [ok |-> TRUE, val |-> JList(<<>>), next |-> i + 2]
        ELSE ParseElements(t, i + 1, <<>>)
    ELSE ParseFail

\* the elements of an array, after its "[" or after a ","
ParseElements(t, i, acc) ==
    LET v == ParseValue(t, i)
    IN  IF ~v.ok \/ v.next > Len(t) THEN ParseFail
        ELSE IF t[v.next] = "," THEN ParseElements(t, v.next + 1, Append(acc, v.val))
        ELSE IF t[v.next] = "]" THEN [ok |-> TRUE, val |-> JList(Append(acc, v.val)), next |-> v.next + 1]
        ELSE ParseFail

\* json.loads: whitespace between tokens is skipped, and the whole text
\* must be one value
json_loads(text) ==
    LET t == SelectSeq(text, IsNotWS)
        v == ParseValue(t, 1)
    IN  IF v.ok /\ v.next = Len(t) + 1 THEN [ok |-> TRUE, val |-> v.val]
        ELSE [ok |-> FALSE, val |-> JNothing]

\* the first index at or after i of a token of toks, 0 when there is none
RECURSIVE IndexFrom(_, _, _)
IndexFrom(t, toks, i) ==
    IF i > Len(t) THEN 0
    ELSE IF t[i] \in toks THEN i
    ELSE IndexFrom(t, toks, i + 1)

\* the last index of a token of toks, 0 when there is none
RECURSIVE LastIndex(_, _, _)
LastIndex(t, toks, i) ==
    IF i < 1 THEN 0
    ELSE IF t[i] \in toks THEN i
    ELSE LastIndex(t, toks, i - 1)

\* the fence pattern with a greedy group: the block runs to the last fence
re_search_fence_Greedy(text) ==
    LET i == IndexFrom(text, {FenceOpen}, 1)
        j == IF i = 0 THEN 0 ELSE LastIndex(text, {FenceOpen, FenceClose}, Len(text))
    IN  IF i = 0 \/ j <= i THEN [matched |-> FALSE, group1 |-> <<>>]
        ELSE [matched |-> TRUE, group1 |-> StripChars(SubSeq(text, i + 1, j - 1), {WS})]

\* re.search of the fence pattern in text: the leftmost opening fence and
\* the nearest three-backquote run after it (a later opening fence starts
\* with one); group(1) has the whitespace on both sides taken by the \s*
re_search_fence(text) ==
    LET i == IndexFrom(text, {FenceOpen}, 1)
        j == IF i = 0 THEN 0 ELSE IndexFrom(text, {FenceOpen, FenceClose}, i + 1)
    IN  IF i = 0 \/ j = 0 THEN [matched |-> FALSE, group1 |-> <<>>]
        ELSE [matched |-> TRUE, group1 |-> StripChars(SubSeq(text, i + 1, j - 1), {WS})]

\* lines 227-231 of scrape_wellfound_candidates: the JSON body of the reply
json_str_of(content) ==
    LET cleaned_json_str == StripChars(content, {WS})
        json_match == re_search_fence(cleaned_json_str)
    IN  IF json_match.matched THEN StripChars(json_match.group1, {WS}) ELSE cleaned_json_str

\* lines 232-238: parse the body and require a list
parse_candidates(content) ==
    LET parsed == json_loads(json_str_of(content))
    IN  IF parsed.ok /\ parsed.val.type = "list"
        THEN [raised |-> FALSE, exc |-> NoExc, val |-> parsed.val.items]
        ELSE [raised |-> TRUE,
              exc |-> Exc("ValueError", <<"Error parsing JSON: ",
                          IF parsed.ok THEN "Expected a list of candidates" ELSE "JSONDecodeError">>),
              val |-> <<>>]

(***************************************************************************)
(* The state of the process.                                               *)
(***************************************************************************)
VARIABLES
    lifespan_state,   \* "created", "serving" or "closed": where lifespan() is
    browser,          \* the global browser: "None", "open" or "closed"
    db_client,        \* the global db_client: "None", "open" or "closed"
    api_key,          \* whether OPENAI_API_KEY is set in the environment
    loop,             \* the analyze request that holds the event loop's thread, or 0
    areq,             \* the analyze-resume requests
    sreq,             \* the scrape-candidates requests
    bucket,           \* the objects of the storage bucket applicants-resume
    applicants,       \* the documents of the collection applicants-data
    wellfound,        \* the documents of the collection Cyber Security
    uuid_seq,         \* how many UUIDs uuid4() has produced
    oid_seq           \* how many ObjectIds have been produced

vars == <<lifespan_state, browser, db_client, api_key, loop, areq, sreq,
          bucket, applicants, wellfound, uuid_seq, oid_seq>>

AReqIds == 1..NumAnalyze

SReqIds == 1..NumScrape

(***************************************************************************)
(* Inputs of the requests.                                                 *)
(***************************************************************************)
Filenames ==
    { <<"c", ".", "p", "d", "f">>, <<"C", ".", "P", "D", "F">>,
      <<"c", ".", "d", "o", "c", "x">>, <<"c", ".", "D", "o", "c", "X">>,
      <<"c", ".", "t", "x", "t">>, <<"c", ".", "T", "X", "T">>,
      <<"c", ".", "r", "t", "f">>, <<"p", "d", "f">>,
      <<"c", ".", "p", "d", "f", ".", "x">>, <<>> }

\* the text of one PDF page or one DOCX paragraph
ItemTexts == { <<>>, <<" ">>, <<"a">> }

Bodies ==
    {EmptyBody, BinaryBody}
    \cup {TextBody(t) : t \in { <<" ">>, <<"a">>, <<" ", "a", "\n">> }}
    \cup {PdfBody(p) : p \in SeqsUpTo(ItemTexts, MaxItems)}
    \cup {DocxBody(p) : p \in SeqsUpTo(ItemTexts, MaxItems)}

JobDescriptions == { NoneV, Some(<<>>), Some(<<" ">>), Some(<<" ", "j">>) }

Experiences == { -1, 0, 1, 2 }

SkillsFields == { NoneV, Some(<<>>), Some(<<"x", ",", " ", "y">>), Some(<<",">>) }

AnalyzeInput(filename, body, job_description, required_experience, skills) ==
    [filename |-> filename, body |-> body, job_description |-> job_description,
     required_experience |-> required_experience, skills |-> skills]

AnalyzeInputs ==
    { AnalyzeInput(f, b, j, e, k) :
        f \in Filenames, b \in Bodies, j \in JobDescriptions, e \in Experiences, k \in SkillsFields }

\* the replies of the skill extraction call
SkillReplies ==
    { LlmError, LlmNoContent,
      LlmContent(<<"[", "'", "a", "'", ",", " ", "\"", "b", "\"", "]">>),
      LlmContent(<<" ", "[", "'", "a", "'", ",", "]", "\n">>),
      LlmContent(<<"[", "1", ",", "'", "a", "'", "]">>),
      LlmContent(<<"[", "]">>),
      LlmContent(<<"a", ",", " ", "b">>),
      LlmContent(<<"'", "a", "'", ",", "'", "b", "'">>),
      LlmContent(<<"[", "a", ",", "b", "]">>),
      LlmContent(<<"[", "'", "a", "'">>),
      LlmContent(<<"[", ",", "]">>),
      LlmContent(<<>>) }

\* the replies of the analysis call
AnalysisReplies ==
    { LlmError, LlmNoContent,
      LlmContent(<<"{A}">>), LlmContent(<<WS, "{B}", WS>>),
      LlmContent(<<"[", "{A}", "]">>),
      LlmContent(<<>>), LlmContent(<<"{A}", ",">>), LlmContent(<<"[", "{A}">>) }

CallOutcomes == {"ok", "error"}

(***************************************************************************)
(* POST /api/analyze-resume                                                *)
(***************************************************************************)
NoResponse == [status |-> 0, kind |-> "none", body |-> JNothing, detail |-> <<>>]

ErrorResponse(status, detail) ==
    [status |-> status, kind |-> "error", body |-> JNothing, detail |-> detail]

ResultResponse(result) ==
    [status |-> 200, kind |-> "result", body |-> result, detail |-> <<>>]

\* the two except clauses of analyze_resume, in their order: ValueError
\* first, then every other Exception (HTTPException is one of them)
analyze_resume_except(e) ==
    IF IsValueError(e)
    THEN ErrorResponse(400, StrOfExc(e))
    ELSE ErrorResponse(500, <<"Internal server error: ">> \o StrOfExc(e))

IdleAnalyze ==
    [pc |-> "idle",
     filename |-> <<>>, file |-> OpenFile(EmptyBody), job_description |-> NoneV,
     required_experience |-> 0, skills |-> NoneV,
     resume_text |-> <<>>, jd |-> NoneV, skill_list |-> NoneV,
     skills_reply |-> LlmError, prompt |-> <<>>, analysis_reply |-> LlmError,
     result |-> JNothing, unique_filename |-> <<>>, file_content |-> EmptyBody,
     applicant_data_id |-> 0,
     response |-> NoResponse, trace |-> <<>>]

\* line 130
strip_job_description(job_description) ==
    IF Truthy(job_description) THEN Some(Strip(job_description.v)) ELSE NoneV

\* line 131
split_skills(skills) ==
    IF Truthy(skills)
    THEN Some([i \in 1..Len(Split(skills.v, ",")) |-> Strip(Split(skills.v, ",")[i])])
    ELSE NoneV

\* lines 120-134: validation, text extraction, form processing and the
\* construction of the ResumeAnalyzer
prepare_analysis(in, key_set) ==
    LET ex == extract_text_sync(in.filename, OpenFile(in.body))
        fail(e, f) == [raised |-> TRUE, exc |-> e, file |-> f, resume_text |-> <<>>,
                       jd |-> NoneV, skill_list |-> NoneV]
    IN  IF in.filename = <<>>
        THEN fail(HTTPException(400, <<"No file uploaded">>), OpenFile(in.body))
        ELSE IF ex.raised THEN fail(ex.exc, ex.file)
        ELSE IF Strip(ex.val) = <<>>
        THEN fail(HTTPException(400, <<"No text extracted from resume">>), ex.file)
        ELSE IF ~key_set
        THEN fail(Exc("ValueError", <<"OpenAI API key is required.">>), ex.file)
        ELSE [raised |-> FALSE, exc |-> NoExc, file |-> ex.file, resume_text |-> ex.val,
              jd |-> strip_job_description(in.job_description),
              skill_list |-> split_skills(in.skills)]

\* line 547 with the test of the skill list left out
needs_skill_extraction_IgnoringList(skill_list, job_description) ==
    Truthy(job_description)

\* line 547 of ResumeAnalyzer.analyze_resume
needs_skill_extraction(skill_list, job_description) ==
    ~Truthy(skill_list) /\ Truthy(job_description)

\* line 143 without the UUID prefix
unique_filename_of_NoUuid(uuid, filename) == filename

\* line 143 with a prefix that is the same in every request
unique_filename_of_FixedPrefix(uuid, filename) == <<"uuid", "0", "_">> \o filename

\* line 143
unique_filename_of(uuid, filename) == <<"uuid", ToString(uuid), "_">> \o filename

\* line 157
get_public_url(path) == <<"https://storage/object/public/applicants-resume/">> \o path

\* lines 162-166
applicant_data(path, result, oid) ==
    [resume_url |-> get_public_url(path), analysis_result |-> result,
     uploaded_at |-> "utcnow", oid |-> oid]

\* a request ends: the response is what the caller receives
Finish(q, response) == [q EXCEPT !.pc = "done", !.response = response]

\* lines 551-573: the prompt is assembled and the analysis call is issued
IssueAnalysis(q, skill_list) ==
    [q EXCEPT !.pc = "await_analysis",
              !.skill_list = skill_list,
              !.prompt = create_universal_resume_analysis_prompt(
                            q.resume_text, q.jd, q.required_experience, skill_list),
              !.trace = q.trace \o <<"create_prompt", "analysis.call">>]

\* the handler starts and runs to its first LLM call: the synchronous
\* OpenAI client keeps the event loop's thread until the reply
AnalyzeBegin(r, inputs) ==
    /\ lifespan_state = "serving"
    /\ loop = 0
    /\ areq[r].pc = "idle"
    /\ \E in \in inputs :
       LET pre == prepare_analysis(in, api_key)
           q == [areq[r] EXCEPT !.filename = in.filename, !.file = pre.file,
                                !.job_description = in.job_description,
                                !.required_experience = in.required_experience,
                                !.skills = in.skills,
                                !.resume_text = pre.resume_text,
                                !.jd = pre.jd, !.skill_list = pre.skill_list]
       IN  IF pre.raised
           THEN /\ areq' = [areq EXCEPT ![r] = Finish(q, analyze_resume_except(pre.exc))]
                /\ loop' = 0
           ELSE IF needs_skill_extraction(pre.skill_list, pre.jd)
           THEN /\ areq' = [areq EXCEPT ![r] =
                               [q EXCEPT !.pc = "await_skills",
                                         !.trace = <<"extract_skills.call">>]]
                /\ loop' = r
           ELSE /\ areq' = [areq EXCEPT ![r] = IssueAnalysis(q, pre.skill_list)]
                /\ loop' = r
    /\ UNCHANGED <<lifespan_state, browser, db_client, api_key, sreq, bucket,
                   applicants, wellfound, uuid_seq, oid_seq>>

\* the skill extraction call ends; extract_skills_from_job_description
\* returns and analyze_resume goes on to the analysis call
SkillsReply(r, replies) ==
    /\ areq[r].pc = "await_skills"
    /\ \E reply \in replies :
       LET q == [areq[r] EXCEPT !.skills_reply = reply]
           res == extract_skills_from_job_description(reply)
       IN  IF res.raised
           THEN /\ areq' = [areq EXCEPT ![r] = Finish(q, analyze_resume_except(res.exc))]
                /\ loop' = 0
           ELSE /\ areq' = [areq EXCEPT ![r] =
                               IssueAnalysis([q EXCEPT !.trace = @ \o <<"extract_skills.return">>],
                                             Some(res.val))]
                /\ loop' = loop
    /\ UNCHANGED <<lifespan_state, browser, db_client, api_key, sreq, bucket,
                   applicants, wellfound, uuid_seq, oid_seq>>

\* lines 575-583 with the failure swallowed: a failed call or an unparsable
\* reply yields an empty result
parse_analysis_Lenient(reply) ==
    [raised |-> FALSE, exc |-> NoExc,
     val |-> IF reply.kind = "content" /\ json_loads(reply.content).ok
             THEN json_loads(reply.content).val ELSE JNothing]

\* lines 575-583 of ResumeAnalyzer.analyze_resume: the reply is parsed, and
\* every exception is raised again
parse_analysis(reply) ==
    LET parsed == json_loads(reply.content)
    IN  IF reply.kind = "error"
        THEN [raised |-> TRUE, exc |-> Exc("APIError", <<"APIError">>), val |-> JNothing]
        ELSE IF reply.kind = "none"
        THEN [raised |-> TRUE, exc |-> Exc("TypeError", <<"the JSON object must be str">>),
              val |-> JNothing]
        ELSE IF ~parsed.ok
        THEN [raised |-> TRUE, exc |-> Exc("JSONDecodeError", <<"JSONDecodeError">>),
              val |-> JNothing]
        ELSE [raised |-> FALSE, exc |-> NoExc, val |-> parsed.val]

\* lines 144-146: the file is rewound and read again
reread_file(file) == FileRead(Seek0(file))

\* the analysis call ends; on success the handler goes on to the storage
\* upload, a synchronous call too
AnalysisReply(r, replies) ==
    /\ areq[r].pc = "await_analysis"
    /\ \E reply \in replies :
       LET q == [areq[r] EXCEPT !.analysis_reply = reply]
           res == parse_analysis(reply)
           file_content == reread_file(q.file)
       IN  IF res.raised
           THEN /\ areq' = [areq EXCEPT ![r] = Finish(q, analyze_resume_except(res.exc))]
                /\ loop' = 0
                /\ uuid_seq' = uuid_seq
           ELSE IF IsEmptyBytes(file_content)
           THEN /\ areq' = [areq EXCEPT ![r] =
                               Finish([q EXCEPT !.result = res.val],
                                      analyze_resume_except(
                                          HTTPException(400, <<"Empty file uploaded">>)))]
                /\ loop' = 0
                /\ uuid_seq' = uuid_seq + 1
           ELSE /\ areq' = [areq EXCEPT ![r] =
                               [q EXCEPT !.pc = "await_upload",
                                         !.result = res.val,
                                         !.file = AfterRead(Seek0(q.file)),
                                         !.file_content = file_content,
                                         !.unique_filename =
                                             unique_filename_of(uuid_seq + 1, q.filename),
                                         !.trace = @ \o <<"analysis.return", "upload.call">>]]
                /\ loop' = r
                /\ uuid_seq' = uuid_seq + 1
    /\ UNCHANGED <<lifespan_state, browser, db_client, api_key, sreq, bucket,
                   applicants, wellfound, oid_seq>>

\* the upload ends; on success the handler builds the metadata document and
\* awaits insert_one, which gives the event loop back
UploadReply(r) ==
    /\ areq[r].pc = "await_upload"
    /\ \E outcome \in CallOutcomes :
       LET q == areq[r]
       IN  IF outcome = "ok"
           THEN /\ bucket' = bucket \cup {[path |-> q.unique_filename, file |-> q.file_content]}
                /\ areq' = [areq EXCEPT ![r] =
                               [q EXCEPT !.pc = "await_insert",
                                         !.trace = @ \o <<"upload.return", "insert_one.call">>]]
           ELSE /\ bucket' = bucket
                /\ areq' = [areq EXCEPT ![r] =
                               Finish(q, analyze_resume_except(
                                             Exc("StorageException", <<"StorageException">>)))]
    /\ loop' = 0
    /\ UNCHANGED <<lifespan_state, browser, db_client, api_key, sreq,
                   applicants, wellfound, uuid_seq, oid_seq>>

\* insert_one ends, with a handler that deletes the uploaded object again
\* when the insert has failed
InsertReply_Rollback(r) ==
    /\ areq[r].pc = "await_insert"
    /\ loop = 0
    /\ \E outcome \in CallOutcomes :
       LET q == areq[r]
       IN  IF outcome = "ok"
           THEN /\ applicants' = applicants \cup
                                   {applicant_data(q.unique_filename, q.result, oid_seq + 1)}
                /\ oid_seq' = oid_seq + 1
                /\ bucket' = bucket
                /\ areq' = [areq EXCEPT ![r] =
                               Finish([q EXCEPT !.applicant_data_id = oid_seq + 1,
                                                !.trace = @ \o <<"insert_one.return">>],
                                      ResultResponse(q.result))]
           ELSE /\ applicants' = applicants
                /\ oid_seq' = oid_seq
                /\ bucket' = {o \in bucket : o.path # q.unique_filename}
                /\ areq' = [areq EXCEPT ![r] =
                               Finish(q, analyze_resume_except(
                                             Exc("PyMongoError", <<"PyMongoError">>)))]
    /\ UNCHANGED <<lifespan_state, browser, db_client, api_key, loop, sreq,
                   wellfound, uuid_seq>>

\* insert_one ends and the handler resumes on the event loop
InsertReply(r) ==
    /\ areq[r].pc = "await_insert"
    /\ loop = 0
    /\ \E outcome \in CallOutcomes :
       LET q == areq[r]
       IN  IF outcome = "ok"
           THEN /\ applicants' = applicants \cup
                                   {applicant_data(q.unique_filename, q.result, oid_seq + 1)}
                /\ oid_seq' = oid_seq + 1
                /\ areq' = [areq EXCEPT ![r] =
                               Finish([q EXCEPT !.applicant_data_id = oid_seq + 1,
                                                !.trace = @ \o <<"insert_one.return">>],
                                      ResultResponse(q.result))]
           ELSE /\ applicants' = applicants
                /\ oid_seq' = oid_seq
                /\ areq' = [areq EXCEPT ![r] =
                               Finish(q, analyze_resume_except(
                                             Exc("PyMongoError", <<"PyMongoError">>)))]
    /\ UNCHANGED <<lifespan_state, browser, db_client, api_key, loop, sreq, bucket,
                   wellfound, uuid_seq>>

(***************************************************************************)
(* POST /api/scrape-candidates                                             *)
(***************************************************************************)
ReplyTokens == {FenceOpen, FenceClose, WS, "[", "]", ",", "{A}", "{B}"}

\* the replies of the cleanup call
CleanupReplies ==
    {LlmError, LlmNoContent} \cup {LlmContent(c) : c \in SeqsUpTo(ReplyTokens, MaxReplyLen)}

NoScrapeResponse == [returned |-> "none", candidates |-> <<>>, error |-> <<>>, http |-> 0]

\* whether FastAPI can encode the returned candidates: an ObjectId that
\* insert_many put into a record cannot be encoded
Encodable(candidates) == \A i \in 1..Len(candidates) : candidates[i].oid = 0

\* line 255: the handler returns the dict, and the framework encodes it
CandidatesResponse(candidates) ==
    [returned |-> "candidates", candidates |-> candidates, error |-> <<>>,
     http |-> IF Encodable(candidates) THEN 200 ELSE 500]

\* scrape_candidates with an except clause that catches ValueError only:
\* any other exception leaves the handler
scrape_candidates_except_ValueErrorOnly(e) ==
    IF IsValueError(e)
    THEN [returned |-> "error", candidates |-> <<>>, error |-> StrOfExc(e), http |-> 200]
    ELSE [returned |-> "raised", candidates |-> <<>>, error |-> <<>>, http |-> 500]

\* lines 256-257: the handler returns the pair (error dict, 500), which the
\* framework encodes as a two-element array with status 200
scrape_candidates_except(e) ==
    [returned |-> "error", candidates |-> <<>>, error |-> StrOfExc(e), http |-> 200]

IdleScrape ==
    [pc |-> "idle", store_in_db |-> FALSE, agent_outcome |-> "none",
     cleanup_reply |-> LlmError, candidates |-> <<>>, parsed |-> <<>>, written |-> -1,
     response |-> NoScrapeResponse, trace |-> <<>>]

ScrapeFinish(q, response) == [q EXCEPT !.pc = "done", !.response = response]

\* lines 206-211 behind a lock on the browser: no agent is started while
\* another one runs
ScrapeBegin_Exclusive(s) ==
    /\ lifespan_state = "serving"
    /\ loop = 0
    /\ sreq[s].pc = "idle"
    /\ \A t \in SReqIds : sreq[t].pc # "await_agent"
    /\ \E store_in_db \in BOOLEAN :
       sreq' = [sreq EXCEPT ![s] = [@ EXCEPT !.pc = "await_agent",
                                             !.store_in_db = store_in_db,
                                             !.trace = <<"agent.run">>]]
    /\ UNCHANGED <<lifespan_state, browser, db_client, api_key, loop, areq, bucket,
                   applicants, wellfound, uuid_seq, oid_seq>>

\* lines 206-211: an Agent is built on the global browser and run
ScrapeBegin(s) ==
    /\ lifespan_state = "serving"
    /\ loop = 0
    /\ sreq[s].pc = "idle"
    /\ \E store_in_db \in BOOLEAN :
       sreq' = [sreq EXCEPT ![s] = [@ EXCEPT !.pc = "await_agent",
                                             !.store_in_db = store_in_db,
                                             !.trace = <<"agent.run">>]]
    /\ UNCHANGED <<lifespan_state, browser, db_client, api_key, loop, areq, bucket,
                   applicants, wellfound, uuid_seq, oid_seq>>

\* agent.run() ends, with a handler that runs the agent again when the run
\* has failed
AgentReply_Retry(s) ==
    /\ sreq[s].pc = "await_agent"
    /\ loop = 0
    /\ \E outcome \in CallOutcomes :
       LET q == [sreq[s] EXCEPT !.agent_outcome = outcome]
       IN  sreq' = [sreq EXCEPT ![s] =
                       IF outcome = "ok"
                       THEN [q EXCEPT !.pc = "await_cleanup", !.trace = @ \o <<"llm.ainvoke">>]
                       ELSE [q EXCEPT !.trace = @ \o <<"agent.run">>]]
    /\ UNCHANGED <<lifespan_state, browser, db_client, api_key, loop, areq, bucket,
                   applicants, wellfound, uuid_seq, oid_seq>>

\* agent.run() ends; on success the cleanup call is issued
AgentReply(s) ==
    /\ sreq[s].pc = "await_agent"
    /\ loop = 0
    /\ \E outcome \in CallOutcomes :
       LET q == [sreq[s] EXCEPT !.agent_outcome = outcome]
       IN  sreq' = [sreq EXCEPT ![s] =
                       IF outcome = "ok"
                       THEN [q EXCEPT !.pc = "await_cleanup", !.trace = @ \o <<"llm.ainvoke">>]
                       ELSE ScrapeFinish(q, scrape_candidates_except(
                                                Exc("Exception", <<"agent run failed">>)))]
    /\ UNCHANGED <<lifespan_state, browser, db_client, api_key, loop, areq, bucket,
                   applicants, wellfound, uuid_seq, oid_seq>>

\* lines 226-238 of scrape_wellfound_candidates, given the cleanup reply
scrape_second_pass(reply) ==
    IF reply.kind = "error"
    THEN [raised |-> TRUE, exc |-> Exc("APIError", <<"APIError">>), val |-> <<>>]
    ELSE IF reply.kind = "none"
    THEN [raised |-> TRUE, exc |-> Exc("AttributeError", <<"no attribute strip">>), val |-> <<>>]
    ELSE parse_candidates(reply.content)

\* insert_many's own checks, made before anything is sent: a non-empty
\* list of documents
insert_many_rejects(documents) ==
    \/ documents = <<>>
    \/ \E i \in 1..Len(documents) : documents[i].type # "object"

\* the records with the _id that insert_many puts into each of them
WithIds(documents, base) ==
    [i \in 1..Len(documents) |-> [documents[i] EXCEPT !.oid = base + i]]

\* line 252 with the flag ignored
wants_insert_Always(store_in_db) == TRUE

\* line 252
wants_insert(store_in_db) == store_in_db

\* the cleanup call ends; the reply is parsed and, if asked for, the
\* insert is issued
CleanupReply(s, replies) ==
    /\ sreq[s].pc = "await_cleanup"
    /\ loop = 0
    /\ \E reply \in replies :
       LET q == [sreq[s] EXCEPT !.cleanup_reply = reply]
           res == scrape_second_pass(reply)
           got == [q EXCEPT !.candidates = res.val, !.parsed = res.val]
       IN  sreq' = [sreq EXCEPT ![s] =
               IF res.raised THEN ScrapeFinish(q, scrape_candidates_except(res.exc))
               ELSE IF ~wants_insert(q.store_in_db)
               THEN ScrapeFinish(got, CandidatesResponse(res.val))
               ELSE IF insert_many_rejects(res.val)
               THEN ScrapeFinish([got EXCEPT !.trace = @ \o <<"insert_many">>],
                                 scrape_candidates_except(
                                     Exc("TypeError", <<"documents must be a non-empty list">>)))
               ELSE [got EXCEPT !.pc = "await_insert_many",
                                !.trace = @ \o <<"insert_many">>]]
    /\ UNCHANGED <<lifespan_state, browser, db_client, api_key, loop, areq, bucket,
                   applicants, wellfound, uuid_seq, oid_seq>>

\* what the collection holds after an ordered insert_many that wrote the
\* first `written` documents
inserted_documents(documents, written) ==
    {documents[i] : i \in 1..written}

\* insert_many ends: all documents written, or an error after the first
\* `written` of them (the insert is ordered)
InsertManyReply(s) ==
    /\ sreq[s].pc = "await_insert_many"
    /\ loop = 0
    /\ \E written \in 0..Len(sreq[s].candidates) :
       LET q == sreq[s]
           docs == WithIds(q.candidates, oid_seq)
           got == [q EXCEPT !.candidates = docs, !.written = written]
       IN  /\ wellfound' = wellfound \cup inserted_documents(docs, written)
           /\ oid_seq' = oid_seq + Len(docs)
           /\ sreq' = [sreq EXCEPT ![s] =
                          IF written = Len(docs)
                          THEN ScrapeFinish(got, CandidatesResponse(docs))
                          ELSE ScrapeFinish(got, scrape_candidates_except(
                                                     Exc("BulkWriteError", <<"BulkWriteError">>)))]
    /\ UNCHANGED <<lifespan_state, browser, db_client, api_key, loop, areq, bucket,
                   applicants, uuid_seq>>

(***************************************************************************)
(* lifespan                                                                *)
(***************************************************************************)
QuietRequests ==
    /\ \A r \in AReqIds : areq[r].pc \in {"idle", "done"}
    /\ \A s \in SReqIds : sreq[s].pc \in {"idle", "done"}

\* lines 28-37: the browser and the database client are created
Startup ==
    /\ lifespan_state = "created"
    /\ lifespan_state' = "serving"
    /\ browser' = "open"
    /\ db_client' = "open"
    /\ UNCHANGED <<api_key, loop, areq, sreq, bucket, applicants, wellfound,
                   uuid_seq, oid_seq>>

\* lines 38-39 without line 39: the browser is closed and the database
\* client is left open
Shutdown_BrowserOnly ==
    /\ lifespan_state = "serving"
    /\ QuietRequests
    /\ lifespan_state' = "closed"
    /\ browser' = "closed"
    /\ UNCHANGED <<db_client, api_key, loop, areq, sreq, bucket, applicants, wellfound,
                   uuid_seq, oid_seq>>

\* lines 38-39: both are closed once the server has stopped serving
Shutdown ==
    /\ lifespan_state = "serving"
    /\ QuietRequests
    /\ lifespan_state' = "closed"
    /\ browser' = "closed"
    /\ db_client' = "closed"
    /\ UNCHANGED <<api_key, loop, areq, sreq, bucket, applicants, wellfound,
                   uuid_seq, oid_seq>>

(***************************************************************************)
(* Specifications.                                                         *)
(***************************************************************************)
Init ==
    /\ lifespan_state = "created"
    /\ browser = "None"
    /\ db_client = "None"
    /\ api_key \in BOOLEAN
    /\ loop = 0
    /\ areq = [r \in AReqIds |-> IdleAnalyze]
    /\ sreq = [s \in SReqIds |-> IdleScrape]
    /\ bucket = {}
    /\ applicants = {}
    /\ wellfound = {}
    /\ uuid_seq = 0
    /\ oid_seq = 0

\* one analyze-resume request, over all inputs and replies
NextAnalyze ==
    \/ Startup
    \/ AnalyzeBegin(1, AnalyzeInputs)
    \/ SkillsReply(1, SkillReplies)
    \/ AnalysisReply(1, AnalysisReplies)
    \/ UploadReply(1)
    \/ InsertReply(1)

SpecAnalyze == Init /\ [][NextAnalyze]_vars

\* one scrape-candidates request, over all cleanup replies
NextScrape ==
    \/ Startup
    \/ ScrapeBegin(1)
    \/ AgentReply(1)
    \/ CleanupReply(1, CleanupReplies)
    \/ InsertManyReply(1)

SpecScrape == Init /\ [][NextScrape]_vars

(***************************************************************************)
(* The whole process: every request of both endpoints, concurrently, over  *)
(* a few inputs and replies of each kind.                                  *)
(***************************************************************************)
SystemAnalyzeInputs ==
    { AnalyzeInput(<<"c", ".", "t", "x", "t">>, TextBody(<<"a">>), Some(<<" ", "j">>), 2, NoneV),
      AnalyzeInput(<<"c", ".", "p", "d", "f">>, PdfBody(<< <<"a">> >>), NoneV, 0,
                   Some(<<"x", ",", " ", "y">>)),
      AnalyzeInput(<<"c", ".", "r", "t", "f">>, TextBody(<<"a">>), NoneV, 0, NoneV) }

SystemSkillReplies == { LlmError, LlmContent(<<"[", "'", "a", "'", "]">>) }

SystemAnalysisReplies == { LlmError, LlmContent(<<"{A}">>), LlmContent(<<>>) }

SystemCleanupReplies ==
    { LlmError, LlmContent(<<"{A}">>),
      LlmContent(<<FenceOpen, "[", "{A}", "]", FenceClose>>),
      LlmContent(<<"[", "{A}", ",", "{A}", "]">>) }

Next ==
    \/ Startup
    \/ Shutdown
    \/ \E r \in AReqIds :
          \/ AnalyzeBegin(r, SystemAnalyzeInputs)
          \/ SkillsReply(r, SystemSkillReplies)
          \/ AnalysisReply(r, SystemAnalysisReplies)
          \/ UploadReply(r)
          \/ InsertReply(r)
    \/ \E s \in SReqIds :
          \/ ScrapeBegin(s)
          \/ AgentReply(s)
          \/ CleanupReply(s, SystemCleanupReplies)
          \/ InsertManyReply(s)

Spec == Init /\ [][Next]_vars

\* one request of each endpoint between startup and shutdown
NextEndpoints ==
    \/ Startup
    \/ Shutdown
    \/ AnalyzeBegin(1, SystemAnalyzeInputs)
    \/ SkillsReply(1, SystemSkillReplies)
    \/ AnalysisReply(1, SystemAnalysisReplies)
    \/ UploadReply(1)
    \/ InsertReply(1)
    \/ ScrapeBegin(1)
    \/ AgentReply(1)
    \/ CleanupReply(1, SystemCleanupReplies)
    \/ InsertManyReply(1)

SpecEndpoints == Init /\ [][NextEndpoints]_vars

\* concurrent scrape-candidates requests on the one browser
NextScrapers ==
    \/ Startup
    \/ Shutdown
    \/ \E s \in SReqIds :
          \/ ScrapeBegin(s)
          \/ AgentReply(s)
          \/ CleanupReply(s, SystemCleanupReplies)
          \/ InsertManyReply(s)

SpecScrapers == Init /\ [][NextScrapers]_vars

\* uploads for concurrent analyze-resume requests: the same filename with
\* two different contents, one of them with a job description
ConcurrentAnalyzeInputs ==
    { AnalyzeInput(<<"c", ".", "t", "x", "t">>, TextBody(<<"a">>), Some(<<" ", "j">>), 0, NoneV),
      AnalyzeInput(<<"c", ".", "t", "x", "t">>, TextBody(<<" ", "a", "\n">>), NoneV, 0, NoneV) }

\* analysis replies for them: a failure and two different results
ConcurrentAnalysisReplies == { LlmError, LlmContent(<<"{A}">>), LlmContent(<<"{B}">>) }

\* concurrent analyze-resume requests
NextAnalyzers ==
    \/ Startup
    \/ Shutdown
    \/ \E r \in AReqIds :
          \/ AnalyzeBegin(r, ConcurrentAnalyzeInputs)
          \/ SkillsReply(r, SystemSkillReplies)
          \/ AnalysisReply(r, ConcurrentAnalysisReplies)
          \/ UploadReply(r)
          \/ InsertReply(r)

SpecAnalyzers == Init /\ [][NextAnalyzers]_vars

(***************************************************************************)
(* Properties.                                                             *)
(***************************************************************************)
Occurs(trace, ev) == \E i \in 1..Len(trace) : trace[i] = ev

Count(trace, ev) == Cardinality({i \in 1..Len(trace) : trace[i] = ev})

Before(trace, a, b) ==
    \A i, j \in 1..Len(trace) : trace[i] = a /\ trace[j] = b => i < j

SupportedSuffix(filename) ==
    \E suffix \in {DotPdf, DotDocx, DotTxt} : EndsWith(Lower(filename), suffix)

DoneAnalyze(r) == areq[r].pc = "done"

\* C1: an upload whose filename ends in none of .pdf, .docx, .txt (in any
\* letter case) is answered with status 400 and the unsupported-file-type
\* message, whatever its content.
C1_UnsupportedTypeIs400 ==
    \A r \in AReqIds :
        (DoneAnalyze(r) /\ areq[r].filename # <<>> /\ ~SupportedSuffix(areq[r].filename))
        => /\ areq[r].response.status = 400
           /\ areq[r].response.detail = UnsupportedDetail

\* the text the Document Ingestor extracts from the upload of request r
ExtractionOf(r) == extract_text_sync(areq[r].filename, OpenFile(areq[r].file.body))

\* the upload of request r is of a supported type and is empty, yields empty
\* or whitespace-only text, or is a .txt that does not decode
MalformedUpload(r) ==
    /\ SupportedSuffix(areq[r].filename)
    /\ \/ IsEmptyBytes(areq[r].file.body)
       \/ ~ExtractionOf(r).raised /\ Strip(ExtractionOf(r).val) = <<>>
       \/ /\ EndsWith(Lower(areq[r].filename), DotTxt)
          /\ areq[r].file.body.fmt \notin {"text", "empty"}

\* C2: for each supported type an empty upload, an upload whose extracted
\* text is empty or whitespace-only, and a .txt upload that does not decode
\* as UTF-8 are all answered with status 400.
C2_MalformedInputIs400 ==
    \A r \in AReqIds :
        (DoneAnalyze(r) /\ MalformedUpload(r)) => areq[r].response.status = 400

\* request r fails at input validation: its filename or its file is
\* rejected before the analyzer is built
InputValidationFailure(r) ==
    prepare_analysis(
        AnalyzeInput(areq[r].filename, areq[r].file.body, areq[r].job_description,
                     areq[r].required_experience, areq[r].skills), TRUE).raised

\* C3: a failure that is no input-validation failure (an LLM reply that is
\* no JSON, an LLM API failure, a failed upload, a failed metadata write) is
\* answered with status 500, and only input-validation failures are
\* answered with status 400.
C3_OnlyValidationIs400 ==
    \A r \in AReqIds :
        (DoneAnalyze(r) /\ areq[r].response.kind = "error")
        => /\ ~InputValidationFailure(r) => areq[r].response.status = 500
           /\ areq[r].response.status = 400 => InputValidationFailure(r)

(***************************************************************************)
(* The scrape endpoint's properties.                                       *)
(***************************************************************************)
Fences == {FenceOpen, FenceClose}

\* the opening fences of t that some later fence closes
ClosedOpenings(t) ==
    {i \in 1..Len(t) : t[i] = FenceOpen /\ \E j \in (i + 1)..Len(t) : t[j] \in Fences}

\* the content of the first fenced block of a reply, or the whole reply
\* when it has no fenced block, without the whitespace around it
FencedBody(content) ==
    LET t == StripChars(content, {WS})
    IN  IF ClosedOpenings(t) = {} THEN t
        ELSE LET i0 == CHOOSE i \in ClosedOpenings(t) : \A k \in ClosedOpenings(t) : i <= k
                 j0 == CHOOSE j \in (i0 + 1)..Len(t) :
                          t[j] \in Fences /\ \A k \in (i0 + 1)..(j - 1) : t[k] \notin Fences
             IN  StripChars(SubSeq(t, i0 + 1, j0 - 1), {WS})

\* the body of the reply is a JSON array
IsJsonArray(content) ==
    json_loads(FencedBody(content)).ok /\ json_loads(FencedBody(content)).val.type = "list"

\* request s has had its cleanup reply and has gone through the second pass
SecondPassDone(s) ==
    sreq[s].agent_outcome = "ok" /\ sreq[s].pc \in {"await_insert_many", "done"}

ParsedOk(s) ==
    SecondPassDone(s) /\ sreq[s].cleanup_reply.kind = "content"
        /\ IsJsonArray(sreq[s].cleanup_reply.content)

\* something failed in request s: the agent run, the cleanup call, the
\* parsing, or the insert
ScrapeFailed(s) ==
    \/ sreq[s].agent_outcome = "error"
    \/ SecondPassDone(s) /\ ~ParsedOk(s)
    \/ /\ ParsedOk(s) /\ sreq[s].store_in_db /\ sreq[s].pc = "done"
       /\ sreq[s].written # Len(sreq[s].parsed)

\* C4: when the agent run, the cleanup call, the parsing or the insert
\* fails, the handler returns the error object, returns no candidates, and
\* no exception leaves it.
C4_ScrapeFailureReturnsError ==
    \A s \in SReqIds :
        sreq[s].pc = "done"
        => /\ sreq[s].response.returned \in {"candidates", "error"}
           /\ ScrapeFailed(s)
              => /\ sreq[s].response.returned = "error"
                 /\ sreq[s].response.error # <<>>
                 /\ sreq[s].response.candidates = <<>>

\* a cleanup reply whose body is no JSON was answered with the error object
C4_Witness ==
    \E s \in SReqIds :
        /\ sreq[s].pc = "done"
        /\ sreq[s].cleanup_reply.kind = "content"
        /\ ~json_loads(FencedBody(sreq[s].cleanup_reply.content)).ok
        /\ sreq[s].response.returned = "error"

ParseErrorReturned(s) ==
    /\ sreq[s].pc = "done"
    /\ sreq[s].response.returned = "error"
    /\ sreq[s].response.error # <<>>
    /\ sreq[s].response.error[1] = "Error parsing JSON: "

\* C9: the second pass parses the content of the first fenced block of the
\* cleanup reply, or the whole stripped reply when there is no fenced block;
\* it returns the parsed value when that is an array, and raises the parsing
\* error otherwise.  A fenced one-element array gives that one record.
C9_SecondPassParsesFencedArray ==
    \A s \in SReqIds :
        (SecondPassDone(s) /\ sreq[s].cleanup_reply.kind = "content")
        => LET content == sreq[s].cleanup_reply.content
               v == json_loads(FencedBody(content))
           IN  /\ IF v.ok /\ v.val.type = "list"
                  THEN sreq[s].parsed = v.val.items /\ ~ParseErrorReturned(s)
                  ELSE ParseErrorReturned(s)
               /\ content = <<FenceOpen, "[", "{A}", "]", FenceClose>>
                  => sreq[s].parsed = <<JObject("{A}")>>
               /\ content = <<"[", "{A}", ",", "{B}", "]">>
                  => sreq[s].parsed = <<JObject("{A}"), JObject("{B}")>>
               /\ content = <<FenceOpen, "{A}", FenceClose>> => ParseErrorReturned(s)

\* the fenced one-element array was parsed into one record
C9_Witness ==
    \E s \in SReqIds :
        /\ SecondPassDone(s)
        /\ sreq[s].cleanup_reply = LlmContent(<<FenceOpen, "[", "{A}", "]", FenceClose>>)
        /\ sreq[s].parsed = <<JObject("{A}")>>
        /\ sreq[s].response.returned = "candidates"

\* the documents that a successful insert of the parsed records adds, for
\* the ObjectIds following base
InsertedRecords(parsed, base) == {[parsed[i] EXCEPT !.oid = base + i] : i \in 1..Len(parsed)}

InsertSucceeded(s) ==
    sreq[s].pc = "done" /\ sreq[s].written >= 0 /\ sreq[s].written = Len(sreq[s].parsed)

\* C10: the insert is made if and only if store_in_db is true and scraping
\* and parsing succeeded; a successful insert adds every parsed record once,
\* duplicates included; without store_in_db the store is unchanged.
C10_InsertIffRequested ==
    /\ \A s \in SReqIds :
          /\ SecondPassDone(s)
             => (Occurs(sreq[s].trace, "insert_many") <=> (sreq[s].store_in_db /\ ParsedOk(s)))
          /\ ~SecondPassDone(s) => ~Occurs(sreq[s].trace, "insert_many")
          /\ Count(sreq[s].trace, "insert_many") <= 1
          /\ InsertSucceeded(s)
             => \E base \in 0..oid_seq :
                   /\ InsertedRecords(sreq[s].parsed, base) \subseteq wellfound
                   /\ Cardinality(InsertedRecords(sreq[s].parsed, base)) = Len(sreq[s].parsed)
    /\ (\A s \in SReqIds : ~sreq[s].store_in_db) => wellfound = {}

\* two parsed records were stored, and both are in the collection
C10_Witness ==
    \E s \in SReqIds :
        /\ InsertSucceeded(s)
        /\ sreq[s].store_in_db
        /\ Len(sreq[s].parsed) = 2
        /\ Cardinality(wellfound) = 2

(***************************************************************************)
(* The analyze endpoint's properties.                                      *)
(***************************************************************************)
SucceededAnalyze(r) == DoneAnalyze(r) /\ areq[r].response.kind = "result"

PublicUrlPrefix == "https://storage/object/public/applicants-resume/"

\* C5: a successful request has made exactly one upload, of the original
\* bytes under the key <fresh UUID>_<filename>, then exactly one metadata
\* insert holding that object's public URL, the analysis result and a
\* timestamp, and has returned the parsed analysis unchanged.
C5_SuccessUploadsThenInserts ==
    \A r \in AReqIds :
        SucceededAnalyze(r)
        => LET q == areq[r]
               url == <<PublicUrlPrefix>> \o q.unique_filename
           IN  /\ Count(q.trace, "upload.call") = 1
               /\ Count(q.trace, "insert_one.call") = 1
               /\ Before(q.trace, "upload.call", "upload.return")
               /\ Before(q.trace, "upload.return", "insert_one.call")
               /\ q.trace[Len(q.trace)] = "insert_one.return"
               /\ \E u \in 1..uuid_seq :
                     q.unique_filename = <<"uuid", ToString(u), "_">> \o q.filename
               /\ \A r2 \in AReqIds \ {r} : areq[r2].unique_filename # q.unique_filename
               /\ {o \in bucket : o.path = q.unique_filename}
                     = {[path |-> q.unique_filename, file |-> q.file.body]}
               /\ ~IsEmptyBytes(q.file.body)
               /\ {d \in applicants : d.resume_url = url}
                     = {[resume_url |-> url, analysis_result |-> q.response.body,
                         uploaded_at |-> "utcnow", oid |-> q.applicant_data_id]}
               /\ q.response.status = 200
               /\ q.analysis_reply.kind = "content"
               /\ json_loads(q.analysis_reply.content).ok
               /\ q.response.body = json_loads(q.analysis_reply.content).val

\* a request has succeeded
C5_Witness ==
    \E r \in AReqIds :
        /\ SucceededAnalyze(r)
        /\ areq[r].response.body = JObject("{A}")
        /\ Cardinality(bucket) = 1
        /\ Cardinality(applicants) = 1

\* request r has passed validation and extraction and reached the analyzer
ReachedAnalyzer(r) == areq[r].trace # <<>>

ExtractionIssued(r) == Occurs(areq[r].trace, "extract_skills.call")

PromptAssembled(r) == Occurs(areq[r].trace, "create_prompt")

\* the skill list that an explicit skills field stands for
ExplicitSkills(field) ==
    [i \in 1..Len(Split(field, ",")) |-> StripChars(Split(field, ",")[i], Whitespace)]

\* the parts of C6 that both readings of the claim share: the extraction
\* ends before the prompt is assembled, and an explicit list is the one used
C6_OrderAndExplicitList(r) ==
    /\ (ExtractionIssued(r) /\ PromptAssembled(r))
       => /\ Occurs(areq[r].trace, "extract_skills.return")
          /\ Before(areq[r].trace, "extract_skills.call", "extract_skills.return")
          /\ Before(areq[r].trace, "extract_skills.return", "create_prompt")
    /\ areq[r].pc = "await_skills" => ~PromptAssembled(r) /\ areq[r].prompt = <<>>
    /\ Truthy(areq[r].skills)
       => /\ ~ExtractionIssued(r)
          /\ areq[r].skill_list = Some(ExplicitSkills(areq[r].skills.v))
          /\ areq[r].skills.v = <<"x", ",", " ", "y">>
             => areq[r].skill_list.v = << <<"x">>, <<"y">> >>

\* C6 as stated: the skill extraction call is issued if and only if no
\* explicit skill list was supplied and the job description is non-empty; it
\* ends before the prompt is assembled; an explicit non-empty list is the
\* one used, without the call.
C6_Original ==
    \A r \in AReqIds :
        ReachedAnalyzer(r)
        => /\ ExtractionIssued(r)
              <=> (~Truthy(areq[r].skills) /\ Truthy(areq[r].job_description))
           /\ C6_OrderAndExplicitList(r)

\* C6 as amended: the job description counts as non-empty when it is
\* non-empty after the surrounding whitespace is stripped.
C6_ExtractionIffNoListAndJob ==
    \A r \in AReqIds :
        ReachedAnalyzer(r)
        => /\ ExtractionIssued(r)
              <=> /\ ~Truthy(areq[r].skills)
                  /\ areq[r].job_description.some
                  /\ StripChars(areq[r].job_description.v, Whitespace) # <<>>
           /\ C6_OrderAndExplicitList(r)

\* the extraction was issued, ended, and the prompt was assembled after it
C6_Witness ==
    \E r \in AReqIds :
        /\ ExtractionIssued(r)
        /\ PromptAssembled(r)
        /\ ~Truthy(areq[r].skills)
        /\ areq[r].job_description = Some(<<" ", "j">>)

ExtractionReturned(r) == areq[r].pc # "await_skills" /\ ExtractionIssued(r)

\* a character that is no bracket, comma, whitespace or quote
IsSkillLetter(c) == c \notin {"[", "]", ",", "'", "\""} \cup Whitespace

A == <<"a">>

B == <<"b">>

\* C7: extract_skills_from_job_description never raises: a reply that is a
\* list gives the list as strings, any other reply gives the pieces between
\* the commas without brackets, whitespace and quotes, the empty ones
\* dropped, and a failed call gives the empty list; analyze_resume then
\* assembles the prompt and issues the analysis call.
C7_ExtractionNeverRaises ==
    \A r \in AReqIds :
        ExtractionReturned(r)
        => LET q == areq[r]
               text == StripChars(q.skills_reply.content, Whitespace)
           IN  /\ Occurs(q.trace, "extract_skills.return")
               /\ Occurs(q.trace, "analysis.call")
               /\ q.prompt # <<>>
               /\ q.skill_list.some
               /\ q.skills_reply.kind # "content" => q.skill_list.v = <<>>
               /\ (q.skills_reply.kind = "content" /\ PyEvalList(text).ok)
                  => q.skill_list.v = PyEvalList(text).items
               /\ (q.skills_reply.kind = "content" /\ ~PyEvalList(text).ok)
                  => /\ \A i \in 1..Len(q.skill_list.v) :
                           /\ q.skill_list.v[i] # <<>>
                           /\ \A k \in 1..Len(q.skill_list.v[i]) :
                                 q.skill_list.v[i][k] \notin {"[", "]", ","}
                           /\ q.skill_list.v[i][1] \notin Quotes
                           /\ q.skill_list.v[i][Len(q.skill_list.v[i])] \notin Quotes
                     /\ SelectSeq(Concat(q.skill_list.v), IsSkillLetter)
                           = SelectSeq(text, IsSkillLetter)
               /\ q.skills_reply = LlmContent(<<"[", "'", "a", "'", ",", " ", "\"", "b", "\"", "]">>)
                  => q.skill_list.v = <<A, B>>
               /\ q.skills_reply = LlmContent(<<"[", "1", ",", "'", "a", "'", "]">>)
                  => q.skill_list.v = << <<"1">>, A >>
               /\ q.skills_reply = LlmContent(<<"a", ",", " ", "b">>)
                  => q.skill_list.v = <<A, B>>
               /\ q.skills_reply = LlmContent(<<"'", "a", "'", ",", "'", "b", "'">>)
                  => q.skill_list.v = <<A, B>>
               /\ q.skills_reply = LlmContent(<<"[", "a", ",", "b", "]">>)
                  => q.skill_list.v = <<A, B>>
               /\ q.skills_reply = LlmContent(<<"[", ",", "]">>) => q.skill_list.v = <<>>

\* the call failed, the list is empty and the analysis call was issued
C7_Witness ==
    \E r \in AReqIds :
        /\ ExtractionReturned(r)
        /\ areq[r].skills_reply = LlmError
        /\ areq[r].skill_list = Some(<<>>)
        /\ Occurs(areq[r].trace, "analysis.call")

EvaluateClause == "Evaluate the following specific skills from the provided list"

DeriveClause == "Since no specific skill list was provided, analyze the job description"

ClausesOf(prompt, name) == {i \in 1..Len(prompt) : prompt[i].seg = name}

\* needle occurs in hay
Contains(hay, needle) ==
    \E k \in 0..(Len(hay) - Len(needle)) : SubSeq(hay, k + 1, k + Len(needle)) = needle

\* the clause names the skill
Names(clause, skill) == \E j \in 1..Len(clause.data) : Contains(clause.data[j], skill)

\* C8: the prompt has exactly one of the two skills clauses: with a
\* non-empty skill list the evaluate clause, naming every skill, and no
\* self-derivation clause; with no list or an empty one the self-derivation
\* clause and no evaluate clause.
C8_ExactlyOneSkillsClause ==
    \A r \in AReqIds :
        areq[r].prompt # <<>>
        => LET prompt == areq[r].prompt
               used == areq[r].skill_list
               ev == ClausesOf(prompt, EvaluateClause)
               dv == ClausesOf(prompt, DeriveClause)
           IN  /\ Cardinality(ev) + Cardinality(dv) = 1
               /\ (used.some /\ used.v # <<>>)
                  => /\ dv = {}
                     /\ \A i \in ev :
                           /\ Len(prompt[i].data) = Len(used.v)
                           /\ \A k \in 1..Len(used.v) : Names(prompt[i], used.v[k])
               /\ (~used.some \/ used.v = <<>>) => ev = {}

\* the prompt has the evaluate clause, naming two skills
C8_Witness ==
    \E r \in AReqIds :
        /\ areq[r].prompt # <<>>
        /\ areq[r].skill_list = Some(<<A, B>>)
        /\ \E i \in ClausesOf(areq[r].prompt, EvaluateClause) :
              Names(areq[r].prompt[i], A) /\ Names(areq[r].prompt[i], B)

(***************************************************************************)
(* C11: dispatch of the Document Ingestor.                                 *)
(***************************************************************************)
UpperOf(c) ==
    CASE c = "p" -> "P" [] c = "d" -> "D" [] c = "f" -> "F" [] c = "o" -> "O"
      [] c = "c" -> "C" [] c = "x" -> "X" [] c = "t" -> "T" [] OTHER -> c

\* filename ends in suffix, each letter in either case
HasSuffixAnyCase(filename, suffix) ==
    /\ Len(filename) >= Len(suffix)
    /\ \A i \in 1..Len(suffix) :
          filename[Len(filename) - Len(suffix) + i] \in {suffix[i], UpperOf(suffix[i])}

\* request r has handed its upload to the Document Ingestor
Ingested(r) == areq[r].pc # "idle" /\ areq[r].filename # <<>>

\* one content of each kind: no bytes, bytes of no known format, text, a PDF
\* and a DOCX
ContentKinds ==
    {EmptyBody, BinaryBody, TextBody(<<"a">>), PdfBody(<< <<"a">> >>), DocxBody(<< <<"a">> >>)}

\* extract_text_sync on filename does, for every kind of content, what
\* extractor does
RoutedTo(filename, extractor(_)) ==
    \A b \in ContentKinds :
        extract_text_sync(filename, OpenFile(b)) = extractor(OpenFile(b))

\* the request did what the extractor's outcome on its own upload dictates:
\* an extractor's error is the one reported, and the text kept is its text
FollowsExtractor(r, extractor(_)) ==
    LET out == extractor(OpenFile(areq[r].file.body))
    IN  /\ (out.raised /\ DoneAnalyze(r)) => areq[r].response.detail = StrOfExc(out.exc)
        /\ (~out.raised /\ ~DoneAnalyze(r)) => areq[r].resume_text = out.val

\* C11: a filename ending in .pdf, .docx or .txt in any letter case is
\* routed to the PDF, DOCX or TXT extractor respectively, whatever the
\* content of the file is.
C11_DispatchBySuffixAnyCase ==
    \A r \in AReqIds :
        Ingested(r) =>
            /\ HasSuffixAnyCase(areq[r].filename, DotPdf)
                  => /\ RoutedTo(areq[r].filename, extract_text_from_pdf_sync)
                     /\ FollowsExtractor(r, extract_text_from_pdf_sync)
            /\ HasSuffixAnyCase(areq[r].filename, DotDocx)
                  => /\ RoutedTo(areq[r].filename, extract_text_from_docx_sync)
                     /\ FollowsExtractor(r, extract_text_from_docx_sync)
            /\ HasSuffixAnyCase(areq[r].filename, DotTxt)
                  => /\ RoutedTo(areq[r].filename, extract_text_from_txt_sync)
                     /\ FollowsExtractor(r, extract_text_from_txt_sync)

\* an upload named c.DocX with a DOCX body has reached the analysis call,
\* and one named C.PDF whose bytes are no PDF has been refused by the PDF
\* extractor
C11_Witness ==
    \/ /\ areq[1].filename = <<"c", ".", "D", "o", "c", "X">>
       /\ areq[1].file.body.fmt = "docx"
       /\ areq[1].pc = "await_analysis"
    \/ /\ areq[1].filename = <<"C", ".", "P", "D", "F">>
       /\ areq[1].file.body.fmt = "binary"
       /\ DoneAnalyze(1)

(***************************************************************************)
(* C12: the upload is not undone when the metadata insert fails.           *)
(***************************************************************************)
\* request r has ended with its upload done and its insert failed
InsertFailedAfterUpload(r) ==
    /\ DoneAnalyze(r)
    /\ Occurs(areq[r].trace, "upload.return")
    /\ Occurs(areq[r].trace, "insert_one.call")
    /\ ~Occurs(areq[r].trace, "insert_one.return")

\* C12: when the upload succeeded and the metadata insert failed, the
\* uploaded object is still in storage, no metadata document refers to it,
\* and the caller got an error and not the analysis result.
C12_FailedInsertLeavesOrphan ==
    \A r \in AReqIds :
        InsertFailedAfterUpload(r) =>
            /\ [path |-> areq[r].unique_filename, file |-> areq[r].file.body] \in bucket
            /\ \A d \in applicants : d.resume_url # get_public_url(areq[r].unique_filename)
            /\ areq[r].response.kind = "error"
            /\ areq[r].response.status = 500
            /\ areq[r].response.body # areq[r].result

\* a request whose analysis was parsed and whose upload was stored has
\* ended with a failed insert
C12_Witness ==
    /\ InsertFailedAfterUpload(1)
    /\ areq[1].result.type = "object"
    /\ Cardinality(bucket) = 1
    /\ applicants = {}

(***************************************************************************)
(* C13: a request that fails before the upload changes no store.           *)
(***************************************************************************)
LlmCalls == {"extract_skills.call", "analysis.call"}

StoreCalls == {"upload.call", "insert_one.call"}

\* request r was rejected at validation or at text extraction
RejectedAtIngest(r) ==
    /\ DoneAnalyze(r)
    /\ \/ areq[r].filename = <<>>
       \/ ExtractionOf(r).raised
       \/ Strip(ExtractionOf(r).val) = <<>>

\* request r issued the analysis call and the call failed or its reply did
\* not parse
FailedInAnalysisCall(r) ==
    /\ DoneAnalyze(r)
    /\ Occurs(areq[r].trace, "analysis.call")
    /\ \/ areq[r].analysis_reply.kind # "content"
       \/ ~json_loads(areq[r].analysis_reply.content).ok

\* C13: a request that fails at validation, at text extraction or in the
\* analysis call (an unparsable reply included) leaves storage and the
\* metadata store as they were, and one rejected at validation or
\* extraction issues no LLM call.
C13_EarlyFailureChangesNothing ==
    \A r \in AReqIds :
        /\ (RejectedAtIngest(r) \/ FailedInAnalysisCall(r))
              => /\ bucket = {}
                 /\ applicants = {}
                 /\ \A ev \in StoreCalls : ~Occurs(areq[r].trace, ev)
                 /\ areq[r].response.kind = "error"
        /\ RejectedAtIngest(r)
              => \A ev \in LlmCalls : ~Occurs(areq[r].trace, ev)

\* a request has ended on an analysis reply that is no JSON, after the skill
\* extraction and the analysis call were both issued
C13_Witness ==
    /\ FailedInAnalysisCall(1)
    /\ areq[1].analysis_reply.kind = "content"
    /\ Occurs(areq[1].trace, "extract_skills.return")
    /\ bucket = {}

(***************************************************************************)
(* C14: no external operation is retried.                                  *)
(***************************************************************************)
AnalyzeOperations == {"extract_skills.call", "analysis.call", "upload.call", "insert_one.call"}

ScrapeOperations == {"agent.run", "llm.ainvoke", "insert_many"}

LastOf(trace) == trace[Len(trace)]

\* the skill extraction call of request r has come back failed
SkillExtractionFailed(r) ==
    /\ Occurs(areq[r].trace, "extract_skills.call")
    /\ areq[r].pc # "await_skills"
    /\ areq[r].skills_reply.kind = "error"

\* the analysis call, the upload or the insert of request r has come back
\* failed: it was issued, is no longer awaited and did not return
LaterOperationFailed(r, op, ret, awaiting) ==
    /\ Occurs(areq[r].trace, op)
    /\ areq[r].pc # awaiting
    /\ ~Occurs(areq[r].trace, ret)

\* request r ended with an error on the operation op, its last one
EndedOn(r, op) ==
    /\ DoneAnalyze(r)
    /\ areq[r].response.kind = "error"
    /\ LastOf(areq[r].trace) = op

\* an external operation of scrape request s has come back failed
ScrapeOperationFailed(s) ==
    \/ sreq[s].agent_outcome = "error"
    \/ /\ Occurs(sreq[s].trace, "llm.ainvoke")
       /\ sreq[s].pc # "await_cleanup"
       /\ sreq[s].cleanup_reply.kind = "error"
    \/ /\ Occurs(sreq[s].trace, "insert_many")
       /\ sreq[s].pc # "await_insert_many"
       /\ sreq[s].response.returned # "candidates"

\* every operation is attempted at most once in a request, and a failed
\* analysis call, upload, insert, agent run, cleanup call or insert_many
\* ends the request on that operation
C14_AtMostOnceAndLaterFailuresEnd ==
    /\ \A r \in AReqIds :
          /\ \A op \in AnalyzeOperations : Count(areq[r].trace, op) <= 1
          /\ LaterOperationFailed(r, "analysis.call", "analysis.return", "await_analysis")
                => EndedOn(r, "analysis.call")
          /\ LaterOperationFailed(r, "upload.call", "upload.return", "await_upload")
                => EndedOn(r, "upload.call")
          /\ LaterOperationFailed(r, "insert_one.call", "insert_one.return", "await_insert")
                => EndedOn(r, "insert_one.call")
    /\ \A s \in SReqIds :
          /\ \A op \in ScrapeOperations : Count(sreq[s].trace, op) <= 1
          /\ ScrapeOperationFailed(s)
                => /\ sreq[s].pc = "done"
                   /\ sreq[s].response.returned = "error"
                   /\ LastOf(sreq[s].trace) =
                         (IF sreq[s].agent_outcome = "error" THEN "agent.run"
                          ELSE IF sreq[s].cleanup_reply.kind = "error" THEN "llm.ainvoke"
                          ELSE "insert_many")

\* the claim as stated: every operation at most once, and the first failure
\* of any operation, the skill extraction call included, ends the request
C14_Original ==
    /\ C14_AtMostOnceAndLaterFailuresEnd
    /\ \A r \in AReqIds : SkillExtractionFailed(r) => EndedOn(r, "extract_skills.call")

\* C14: within one request every external operation is attempted at most
\* once; a failure of the analysis call, the upload, the insert, the agent
\* run, the cleanup call or the insert_many ends the request, and a failed
\* skill extraction call is not retried either: the request goes on to the
\* analysis call with an empty skill list.
C14_NoRetry ==
    /\ C14_AtMostOnceAndLaterFailuresEnd
    /\ \A r \in AReqIds :
          SkillExtractionFailed(r)
             => /\ areq[r].skill_list = Some(<<>>)
                /\ Count(areq[r].trace, "extract_skills.call") = 1
                /\ Before(areq[r].trace, "extract_skills.call", "analysis.call")
                /\ Count(areq[r].trace, "analysis.call") = 1

\* both requests have ended on a failure: the analyze request on a failed
\* insert after a failed skill extraction, the scrape request on a failed
\* insert_many
C14_Witness ==
    /\ SkillExtractionFailed(1)
    /\ EndedOn(1, "insert_one.call")
    /\ sreq[1].pc = "done"
    /\ ScrapeOperationFailed(1)
    /\ LastOf(sreq[1].trace) = "insert_many"

(***************************************************************************)
(* C15: concurrent agent runs on the one browser session.                  *)
(***************************************************************************)
\* the scrape requests whose agent is running on the global browser
RunningAgents == {s \in SReqIds : sreq[s].pc = "await_agent"}

\* C15: nothing keeps a scrape request from starting its agent on the
\* shared browser session while the agent of another request is still
\* running on it: whenever an agent is running, the session is the one open
\* browser and every request that has not yet started can start its own.
C15_NoMutualExclusionOnBrowser ==
    \A s, t \in SReqIds :
        (t \in RunningAgents /\ sreq[s].pc = "idle")
            => /\ browser = "open"
               /\ ENABLED ScrapeBegin(s)

\* two agents are running on the open browser at the same time
C15_Witness ==
    /\ browser = "open"
    /\ Cardinality(RunningAgents) >= 2

(***************************************************************************)
(* C16: the lifetime of the browser session and the database connection.   *)
(***************************************************************************)
Handles == <<browser, db_client>>

\* no request has been handled yet
NoRequestYet ==
    /\ \A r \in AReqIds : areq[r].pc = "idle"
    /\ \A s \in SReqIds : sreq[s].pc = "idle"

\* where the two handles are in each phase of the process
HandlesFollowLifespan ==
    /\ lifespan_state = "created" => (Handles = <<"None", "None">> /\ NoRequestYet)
    /\ lifespan_state = "serving" => Handles = <<"open", "open">>
    /\ lifespan_state = "closed" => Handles = <<"closed", "closed">>
    /\ ~NoRequestYet => Handles # <<"None", "None">>

\* a step that changes a handle changes both, is the creation at startup or
\* the closing at shutdown, and is no step of a request
HandlesChangeOnlyInLifespan ==
    Handles' # Handles
        => /\ areq' = areq /\ sreq' = sreq
           /\ \/ /\ Handles = <<"None", "None">> /\ Handles' = <<"open", "open">>
                 /\ lifespan_state = "created" /\ lifespan_state' = "serving"
              \/ /\ Handles = <<"open", "open">> /\ Handles' = <<"closed", "closed">>
                 /\ lifespan_state = "serving" /\ lifespan_state' = "closed"

AwaitsLlm(r) == areq[r].pc \in {"await_skills", "await_analysis"}

\* every other request that is ready to start or to resume can do so
OthersCanProceed(r) ==
    /\ \A o \in AReqIds \ {r} :
          /\ areq[o].pc = "idle" => ENABLED AnalyzeBegin(o, SystemAnalyzeInputs)
          /\ areq[o].pc = "await_insert" => ENABLED InsertReply(o)
    /\ \A s \in SReqIds :
          /\ sreq[s].pc = "idle" => ENABLED ScrapeBegin(s)
          /\ sreq[s].pc = "await_agent" => ENABLED AgentReply(s)
          /\ sreq[s].pc = "await_cleanup" => ENABLED CleanupReply(s, SystemCleanupReplies)
          /\ sreq[s].pc = "await_insert_many" => ENABLED InsertManyReply(s)

\* C17: while an analyze-resume request waits for the reply of its LLM
\* call, the other requests of the process can start and make progress.
C17_OthersProceedDuringLlmCall ==
    \A r \in AReqIds : AwaitsLlm(r) => OthersCanProceed(r)

(***************************************************************************)
(* C18: the text of a PDF and of a DOCX.                                   *)
(***************************************************************************)
\* the length of the first n items together
RECURSIVE TotalLen(_, _)
TotalLen(items, n) == IF n = 0 THEN 0 ELSE TotalLen(items, n - 1) + Len(items[n])

\* text is the items one after the other, in their order, and nothing else
InOrder(items, text) ==
    /\ Len(text) = TotalLen(items, Len(items))
    /\ \A i \in 1..Len(items) :
          SubSeq(text, TotalLen(items, i - 1) + 1, TotalLen(items, i)) = items[i]

WithNewline(paras) == [i \in 1..Len(paras) |-> paras[i] \o <<"\n">>]

\* request r got past the Document Ingestor with the extractor for suffix
IngestedAs(r, suffix) ==
    /\ EndsWith(Lower(areq[r].filename), suffix)
    /\ areq[r].pc \notin {"idle", "done"}

\* C18: the text of a PDF is its pages' texts in page order with the pages
\* of empty text left out, and the text of a DOCX is each paragraph's text
\* followed by one newline, in document order; for every sequence of pages
\* or paragraphs, empty ones included.
C18_PdfAndDocxText ==
    \A r \in AReqIds :
        LET body == areq[r].file.body
            pdf == extract_text_from_pdf_sync(OpenFile(body))
            docx == extract_text_from_docx_sync(OpenFile(body))
        IN  areq[r].pc # "idle" =>
               /\ body.fmt = "pdf"
                     => /\ ~pdf.raised
                        /\ InOrder(SelectSeq(body.items, NonEmptyText), pdf.val)
                        /\ IngestedAs(r, DotPdf) => areq[r].resume_text = pdf.val
               /\ body.fmt = "docx"
                     => /\ ~docx.raised
                        /\ InOrder(WithNewline(body.items), docx.val)
                        /\ IngestedAs(r, DotDocx) => areq[r].resume_text = docx.val

\* a DOCX of an empty and a non-empty paragraph, or a PDF of a non-empty and
\* an empty page, has been ingested and its text is in use
C18_Witness ==
    \/ /\ areq[1].file.body = DocxBody(<< <<>>, <<"a">> >>)
       /\ IngestedAs(1, DotDocx)
       /\ areq[1].resume_text = <<"\n", "a", "\n">>
    \/ /\ areq[1].file.body = PdfBody(<< <<"a">>, <<>> >>)
       /\ IngestedAs(1, DotPdf)
       /\ areq[1].resume_text = <<"a">>

(***************************************************************************)
(* C19: the experience clause of the prompt.                               *)
(***************************************************************************)
ExperienceClause == "The role requires years of experience"

\* C19: the prompt has the experience clause, stating the number of years,
\* exactly when required_experience is greater than 0; for 0 and for a
\* negative number it has none.
C19_ExperienceClauseIffPositive ==
    \A r \in AReqIds :
        areq[r].prompt # <<>>
        => LET prompt == areq[r].prompt
               years == areq[r].required_experience
               ex == ClausesOf(prompt, ExperienceClause)
           IN  /\ years >= 1
                  => /\ Cardinality(ex) = 1
                     /\ \A i \in ex : prompt[i].data = << <<ToString(years)>> >>
               /\ years <= 0 => ex = {}

\* a request asking for 1 year has a prompt that states it
C19_Witness ==
    /\ areq[1].required_experience = 1
    /\ \E i \in ClausesOf(areq[1].prompt, ExperienceClause) :
          areq[1].prompt[i].data = << <<"1">> >>

(***************************************************************************)
(* C20: what a successful scrape returns.                                  *)
(***************************************************************************)
\* the handler of request s has returned the candidates object
ReturnedCandidates(s) ==
    sreq[s].pc = "done" /\ sreq[s].response.returned = "candidates"

\* C20: the records returned under "candidates" are the records parsed from
\* the cleanup reply, unchanged, with store_in_db false and with store_in_db
\* true alike: persisting them adds no field to what is returned.
C20_ReturnsParsedRecordsUnchanged ==
    \A s \in SReqIds :
        ReturnedCandidates(s)
            => /\ sreq[s].response.candidates = sreq[s].parsed
               /\ sreq[s].response.http = 200

(***************************************************************************)
(* C21: storage objects and metadata documents of concurrent requests.     *)
(***************************************************************************)
\* request r has uploaded its file
Uploaded(r) == Occurs(areq[r].trace, "upload.return")

\* request r has written its metadata document
Inserted(r) == Occurs(areq[r].trace, "insert_one.return")

\* the object that request r uploaded
ObjectOf(r) == [path |-> areq[r].unique_filename, file |-> areq[r].file.body]

\* document d was written by request r: it holds the URL of r's object and
\* r's analysis result
WrittenBy(d, r) ==
    /\ Inserted(r)
    /\ d.oid = areq[r].applicant_data_id
    /\ d.resume_url = get_public_url(areq[r].unique_filename)
    /\ d.analysis_result = areq[r].result
    /\ areq[r].result = json_loads(areq[r].analysis_reply.content).val

\* C21: under every interleaving of analyze-resume requests each metadata
\* document holds the URL of the object uploaded by the request whose
\* analysis result it holds, the object of every metadata document is in
\* storage (there are never more documents than objects), and no two
\* requests write to the same storage key, equal filenames or not.
C21_DocumentsMatchOwnUploads ==
    /\ \A d \in applicants :
          /\ Cardinality({r \in AReqIds : WrittenBy(d, r)}) = 1
          /\ \A r \in AReqIds :
                d.resume_url = get_public_url(areq[r].unique_filename)
                   => /\ WrittenBy(d, r)
                      /\ ObjectOf(r) \in bucket
    /\ Cardinality(applicants) <= Cardinality(bucket)
    /\ \A r \in AReqIds : Uploaded(r) => ObjectOf(r) \in bucket
    /\ \A r1, r2 \in AReqIds :
          (r1 # r2 /\ areq[r1].unique_filename # <<>> /\ areq[r2].unique_filename # <<>>)
             => areq[r1].unique_filename # areq[r2].unique_filename
    /\ \A o1, o2 \in bucket : o1.path = o2.path => o1 = o2

\* two requests with the same filename, different contents and different
\* analysis results have both written their documents, the second one
\* having started while the first one's insert was outstanding
C21_Witness ==
    /\ Inserted(1) /\ Inserted(2)
    /\ areq[1].filename = areq[2].filename
    /\ areq[1].file.body # areq[2].file.body
    /\ areq[1].result # areq[2].result
    /\ areq[2].applicant_data_id < areq[1].applicant_data_id
    /\ areq[1].unique_filename = unique_filename_of(1, areq[1].filename)
    /\ Cardinality(applicants) = 2
    /\ Cardinality(bucket) = 2

====
